---- MODULE Spec2Model ----
(***************************************************************************)
(* Order / inventory transaction engine of the e-commerce platform:        *)
(* product catalog, order creation with inventory deduction, the order     *)
(* status state machine and the payment-status reconciliation.             *)
(*                                                                         *)
(* Money is DECIMAL(10,2); it is modelled as an integer number of cents.   *)
(* UUID primary keys are modelled as integers handed out in order: a       *)
(* product id is never reused after a delete, an order id is the order's   *)
(* position in creation order.                                             *)
(***************************************************************************)
EXTENDS Integers, Sequences, FiniteSets, TLC

\* ----------------------------------------------------------------- bounds
MaxProducts == 2      \* products ever created
MaxOrders   == 1      \* orders ever created
MaxLines    == 2      \* lines of one createOrder request
MaxStock    == 2      \* largest quantity a product request sets
MaxQty      == 1      \* largest quantity one order line asks for
MaxPrice    == 2      \* largest product price (cents)
NumSessions == 2      \* concurrent database sessions (requests in flight)
RaceStock   == 1      \* stock of the product the concurrent requests race on
MaxByte     == 3      \* largest byte value of the webhook bodies drawn
MaxBodyLen  == 2      \* longest webhook body drawn (bytes)
NumCustomers == 2
LargeQty == 2
NumStockOrders == 2
NumListOrders == 3
MaxClock == 3
MaxPage == 3
NumPayOrders == 2     \* orders on file when the payment events arrive

\* ------------------------------------------------------------ enumerations
PENDING   == "pending"
COMPLETED == "completed"
CANCELED  == "canceled"
OrderStatus == {PENDING, COMPLETED, CANCELED}

UNPAID == "unpaid"
PAID   == "paid"
FAILED == "failed"
PaymentStatus == {UNPAID, PAID, FAILED}

\* HTTP status codes the handlers answer with
HTTP_200_OK == 200
HTTP_201_CREATED == 201
HTTP_204_NO_CONTENT == 204
HTTP_400_BAD_REQUEST == 400
HTTP_401_UNAUTHORIZED == 401
HTTP_404_NOT_FOUND == 404
HTTP_500_INTERNAL_SERVER_ERROR == 500

ProductIds == 1..MaxProducts
OrderIds   == 1..MaxOrders
Sessions   == 1..NumSessions

VARIABLES
    products,     \* table products: id -> [price, quantity]; DOMAIN = live rows
    product_seq,  \* number of product ids handed out so far
    orders,       \* table orders (+ order_items), in creation order
    last,         \* the last request answered and its response
    sess          \* the database sessions of requests in flight

vars == <<products, product_seq, orders, last, sess>>

\* ------------------------------------------------------------ requests
\* OrderItemCreate: product_id, quantity > 0
OrderItemCreate == [product_id : ProductIds, quantity : 1..MaxQty]

SeqsUpTo(S, n) == UNION {[1..k -> S] : k \in 1..n}

\* OrderCreate: customer_id > 0, products: at least one line
OrderCreate == [customer_id : {1}, products : SeqsUpTo(OrderItemCreate, MaxLines)]

\* ProductCreate: price > 0, quantity >= 0
ProductCreate == [price : 1..MaxPrice, quantity : 0..MaxStock]

\* ProductUpdate: every field optional; price > 0, quantity >= 0 when set.
\* A request is the dict of the fields it sets (model_dump(exclude_unset=True)).
ProductUpdate ==
    UNION {[price : 1..MaxPrice, quantity : 0..MaxStock],
           [price : 1..MaxPrice], [quantity : 0..MaxStock], {<<>>}}

\* ------------------------------------------------------------ status machine
\* Mutant: a Completed order may still be canceled.
ALLOWED_STATUS_TRANSITIONS_cancel_completed ==
    [s \in OrderStatus |->
        IF s = PENDING THEN {COMPLETED, CANCELED}
        ELSE IF s = COMPLETED THEN {CANCELED} ELSE {}]

ALLOWED_STATUS_TRANSITIONS ==
    [s \in OrderStatus |-> IF s = PENDING THEN {COMPLETED, CANCELED} ELSE {}]

\* Mutant: the same-status shortcut is missing.
validate_status_transition_no_self(current, new) ==
    new \in [s \in OrderStatus |-> IF s = PENDING THEN {COMPLETED, CANCELED} ELSE {}][current]

\* TRUE: the function returns; FALSE: it raises HTTPException 400.
validate_status_transition(current, new) ==
    \/ current = new
    \/ new \in ALLOWED_STATUS_TRANSITIONS[current]

\* ------------------------------------------------------------ create_order
\* product_ids = [item.product_id for item in order_data.products]
product_ids_of(order_data) ==
    [i \in 1..Len(order_data.products) |-> order_data.products[i].product_id]

\* db.query(Product).filter(Product.id.in_(product_ids)).all(): the rows found,
\* one per existing id, as the session's product_map (id -> row as read).
query_products(P, ids) ==
    LET found == {p \in DOMAIN P : \E i \in 1..Len(ids) : ids[i] = p}
    IN  [p \in found |-> P[p]]

\* if len(products) != len(product_ids): the 404 branch is taken
not_found_branch(product_map, ids) ==
    Cardinality(DOMAIN product_map) # Len(ids)

\* missing_ids = [pid for pid in product_ids if pid not in found_ids]
missing_ids_of(product_map, ids) ==
    SelectSeq(ids, LAMBDA pid : pid \notin DOMAIN product_map)

\* Mutant: the stock comparison is off by one.
insufficient_stock_off_by_one(product_map, items) ==
    \E i \in 1..Len(items) :
        product_map[items[i].product_id].quantity < items[i].quantity - 1

\* Step 2: some line asks for more than the product's quantity as read
insufficient_stock(product_map, items) ==
    \E i \in 1..Len(items) :
        product_map[items[i].product_id].quantity < items[i].quantity

\* Mutant: the total is summed over the quantities, the price forgotten.
RECURSIVE total_price_of_quantities(_, _)
total_price_of_quantities(product_map, items) ==
    IF items = <<>> THEN 0
    ELSE Head(items).quantity + total_price_of_quantities(product_map, Tail(items))

\* Step 3: total_price = sum(product.price * item.quantity)
RECURSIVE total_price_of(_, _)
total_price_of(product_map, items) ==
    IF items = <<>> THEN 0
    ELSE product_map[Head(items).product_id].price * Head(items).quantity
         + total_price_of(product_map, Tail(items))

\* Mutant: the lines are stored in the reverse of the request's order.
order_items_of_reversed(product_map, items) ==
    [i \in 1..Len(items) |->
        [product_id        |-> items[Len(items) + 1 - i].product_id,
         quantity          |-> items[Len(items) + 1 - i].quantity,
         price_at_purchase |-> product_map[items[Len(items) + 1 - i].product_id].price]]

\* OrderItem(product_id, quantity, price_at_purchase=product.price), one per line
order_items_of(product_map, items) ==
    [i \in 1..Len(items) |->
        [product_id        |-> items[i].product_id,
         quantity          |-> items[i].quantity,
         price_at_purchase |-> product_map[items[i].product_id].price]]

\* Mutant: one unit is deducted per line, whatever the line's quantity.
deduct_inventory_one_per_line(product_map, items) ==
    [p \in DOMAIN product_map |->
        [product_map[p] EXCEPT !.quantity =
            @ - Cardinality({i \in 1..Len(items) : items[i].product_id = p})]]

\* product.quantity -= item.quantity, line after line, on the session's objects
RECURSIVE deduct_inventory(_, _)
deduct_inventory(product_map, items) ==
    IF items = <<>> THEN product_map
    ELSE deduct_inventory(
            [product_map EXCEPT ![Head(items).product_id].quantity =
                                    @ - Head(items).quantity],
            Tail(items))

\* Order(customer_id, total_price, status=PENDING, payment_status=UNPAID)
new_order(product_map, order_data) ==
    [customer_id    |-> order_data.customer_id,
     total_price    |-> total_price_of(product_map, order_data.products),
     status         |-> PENDING,
     payment_status |-> UNPAID,
     order_items    |-> order_items_of(product_map, order_data.products)]

\* Mutant: the stock of the lines whose product was found is checked first,
\* the existence of the products after it.
plan_order_stock_first(product_map, order_data) ==
    LET ids == product_ids_of(order_data)
        known == SelectSeq(order_data.products,
                           LAMBDA item : item.product_id \in DOMAIN product_map)
    IN  IF insufficient_stock(product_map, known)
        THEN [code |-> HTTP_400_BAD_REQUEST, missing |-> <<>>,
              order |-> <<>>, writes |-> <<>>]
        ELSE IF not_found_branch(product_map, ids)
        THEN [code |-> HTTP_404_NOT_FOUND, missing |-> missing_ids_of(product_map, ids),
              order |-> <<>>, writes |-> <<>>]
        ELSE [code |-> HTTP_201_CREATED, missing |-> <<>>,
              order |-> new_order(product_map, order_data),
              writes |-> [p \in DOMAIN product_map |->
                            deduct_inventory(product_map, order_data.products)[p].quantity]]

\* Mutant: lines naming an unknown product are dropped instead of failing the
\* request; 404 only when no line is left.
plan_order_skip_missing(product_map, order_data) ==
    LET known == SelectSeq(order_data.products,
                           LAMBDA item : item.product_id \in DOMAIN product_map)
        kept  == [order_data EXCEPT !.products = known]
    IN  IF known = <<>>
        THEN [code |-> HTTP_404_NOT_FOUND,
              missing |-> missing_ids_of(product_map, product_ids_of(order_data)),
              order |-> <<>>, writes |-> <<>>]
        ELSE IF insufficient_stock(product_map, known)
        THEN [code |-> HTTP_400_BAD_REQUEST, missing |-> <<>>,
              order |-> <<>>, writes |-> <<>>]
        ELSE [code |-> HTTP_201_CREATED, missing |-> <<>>,
              order |-> new_order(product_map, kept),
              writes |-> [p \in DOMAIN product_map |->
                            deduct_inventory(product_map, known)[p].quantity]]

\* What the handler decides from the rows it read: the response code, the ids it
\* lists as missing, the order to insert and the product quantities to write.
plan_order(product_map, order_data) ==
    LET ids == product_ids_of(order_data)
    IN  IF not_found_branch(product_map, ids)
        THEN [code |-> HTTP_404_NOT_FOUND, missing |-> missing_ids_of(product_map, ids),
              order |-> <<>>, writes |-> <<>>]
        ELSE IF insufficient_stock(product_map, order_data.products)
        THEN [code |-> HTTP_400_BAD_REQUEST, missing |-> <<>>,
              order |-> <<>>, writes |-> <<>>]
        ELSE [code |-> HTTP_201_CREATED, missing |-> <<>>,
              order |-> new_order(product_map, order_data),
              writes |-> [p \in DOMAIN product_map |->
                            deduct_inventory(product_map, order_data.products)[p].quantity]]

\* db.commit(): the flush writes each dirty product's quantity as computed in the
\* session (UPDATE products SET quantity = <value>), other columns stay as stored.
flush_quantities(P, writes) ==
    [p \in DOMAIN P |->
        IF p \in DOMAIN writes THEN [P[p] EXCEPT !.quantity = writes[p]] ELSE P[p]]

\* The whole handler run alone: read, check, insert, deduct, commit.
create_order(P, O, order_data) ==
    LET plan == plan_order(query_products(P, product_ids_of(order_data)), order_data)
    IN  IF plan.code # HTTP_201_CREATED
        THEN [products |-> P, orders |-> O, code |-> plan.code, missing |-> plan.missing]
        ELSE [products |-> flush_quantities(P, plan.writes),
              orders   |-> Append(O, plan.order),
              code     |-> HTTP_201_CREATED,
              missing  |-> <<>>]

\* ------------------------------------------------------------ update_order_status
\* Mutant: the loop stops after the first line.
restore_inventory_first_only(product_map, items) ==
    IF items # <<>> /\ Head(items).product_id \in DOMAIN product_map
    THEN [product_map EXCEPT ![Head(items).product_id].quantity =
                                @ + Head(items).quantity]
    ELSE product_map

\* for order_item in db_order.order_items:
\*     product = db.query(Product).filter(Product.id == order_item.product_id).first()
\*     if product: product.quantity += order_item.quantity
RECURSIVE restore_inventory(_, _)
restore_inventory(product_map, items) ==
    IF items = <<>> THEN product_map
    ELSE restore_inventory(
            IF Head(items).product_id \in DOMAIN product_map
            THEN [product_map EXCEPT ![Head(items).product_id].quantity =
                                        @ + Head(items).quantity]
            ELSE product_map,
            Tail(items))

\* if status_update.status == CANCELED and db_order.status == PENDING
\* Mutant: every request for Canceled restores, whatever the current status.
restores_inventory_any_current(current, new) == new = CANCELED

\* Mutant: no request restores.
restores_inventory_never(current, new) == FALSE

\* Mutant: every request on a Pending order restores, whatever the new status.
restores_inventory_any_new(current, new) == current = PENDING

restores_inventory(current, new) ==
    new = CANCELED /\ current = PENDING

\* Mutant: a cancellation restores nothing.
update_order_status_no_restore(P, O, order_id, new) ==
    IF order_id \notin DOMAIN O
    THEN [products |-> P, orders |-> O, code |-> HTTP_404_NOT_FOUND]
    ELSE IF ~validate_status_transition(O[order_id].status, new)
    THEN [products |-> P, orders |-> O, code |-> HTTP_400_BAD_REQUEST]
    ELSE [products |-> P,
          orders   |-> [O EXCEPT ![order_id].status = new],
          code     |-> HTTP_200_OK]

\* Mutant: the inventory is restored before the transition is validated.
update_order_status_restores_first(P, O, order_id, new) ==
    IF order_id \notin DOMAIN O
    THEN [products |-> P, orders |-> O, code |-> HTTP_404_NOT_FOUND]
    ELSE LET ids == [i \in 1..Len(O[order_id].order_items) |->
                        O[order_id].order_items[i].product_id]
             restored == restore_inventory(query_products(P, ids),
                                           O[order_id].order_items)
             P2 == IF new = CANCELED
                   THEN flush_quantities(P, [p \in DOMAIN restored |->
                                               restored[p].quantity])
                   ELSE P
         IN  IF ~validate_status_transition(O[order_id].status, new)
             THEN [products |-> P2, orders |-> O, code |-> HTTP_400_BAD_REQUEST]
             ELSE [products |-> IF O[order_id].status = new THEN P ELSE P2,
                   orders   |-> [O EXCEPT ![order_id].status = new],
                   code     |-> HTTP_200_OK]

\* Mutant: an order that is not found is answered as a successful no-op.
update_order_status_missing_ok(P, O, order_id, new) ==
    IF order_id \notin DOMAIN O
    THEN [products |-> P, orders |-> O, code |-> HTTP_200_OK]
    ELSE IF ~validate_status_transition(O[order_id].status, new)
    THEN [products |-> P, orders |-> O, code |-> HTTP_400_BAD_REQUEST]
    ELSE [products |-> IF restores_inventory(O[order_id].status, new)
                       THEN LET ids == [i \in 1..Len(O[order_id].order_items) |->
                                            O[order_id].order_items[i].product_id]
                                restored == restore_inventory(query_products(P, ids),
                                                              O[order_id].order_items)
                            IN  flush_quantities(P, [p \in DOMAIN restored |->
                                                        restored[p].quantity])
                       ELSE P,
          orders   |-> [O EXCEPT ![order_id].status = new],
          code     |-> HTTP_200_OK]

\* The whole handler run alone. code 404 stands for the service returning None,
\* which the endpoint answers with 404.
update_order_status(P, O, order_id, new) ==
    IF order_id \notin DOMAIN O
    THEN [products |-> P, orders |-> O, code |-> HTTP_404_NOT_FOUND]
    ELSE IF ~validate_status_transition(O[order_id].status, new)
    THEN [products |-> P, orders |-> O, code |-> HTTP_400_BAD_REQUEST]
    ELSE [products |-> IF restores_inventory(O[order_id].status, new)
                       THEN LET ids == [i \in 1..Len(O[order_id].order_items) |->
                                            O[order_id].order_items[i].product_id]
                                restored == restore_inventory(query_products(P, ids),
                                                              O[order_id].order_items)
                            IN  flush_quantities(P, [p \in DOMAIN restored |->
                                                        restored[p].quantity])
                       ELSE P,
          orders   |-> [O EXCEPT ![order_id].status = new],
          code     |-> HTTP_200_OK]

\* ------------------------------------------------------------ update_payment_status
\* Mutant: a repeated event puts the order back to Unpaid.
update_payment_status_repeat_resets(O, order_id, new_payment_status) ==
    IF order_id \notin DOMAIN O
    THEN [orders |-> O, code |-> HTTP_404_NOT_FOUND]
    ELSE IF O[order_id].status # PENDING
    THEN [orders |-> O, code |-> HTTP_400_BAD_REQUEST]
    ELSE [orders |-> [O EXCEPT ![order_id].payment_status =
                                  IF @ = new_payment_status THEN UNPAID
                                  ELSE new_payment_status],
          code   |-> HTTP_200_OK]

\* Mutant: the order's status is not looked at.
update_payment_status_any_status(O, order_id, new_payment_status) ==
    IF order_id \notin DOMAIN O
    THEN [orders |-> O, code |-> HTTP_404_NOT_FOUND]
    ELSE [orders |-> [O EXCEPT ![order_id].payment_status = new_payment_status],
          code   |-> HTTP_200_OK]

\* Mutant: only a Canceled order is refused.
update_payment_status_completed_allowed(O, order_id, new_payment_status) ==
    IF order_id \notin DOMAIN O
    THEN [orders |-> O, code |-> HTTP_404_NOT_FOUND]
    ELSE IF O[order_id].status = CANCELED
    THEN [orders |-> O, code |-> HTTP_400_BAD_REQUEST]
    ELSE [orders |-> [O EXCEPT ![order_id].payment_status = new_payment_status],
          code   |-> HTTP_200_OK]

\* Mutant: an event that repeats the order's payment_status is refused.
update_payment_status_no_repeat(O, order_id, new_payment_status) ==
    IF order_id \notin DOMAIN O
    THEN [orders |-> O, code |-> HTTP_404_NOT_FOUND]
    ELSE IF O[order_id].status # PENDING
            \/ O[order_id].payment_status = new_payment_status
    THEN [orders |-> O, code |-> HTTP_400_BAD_REQUEST]
    ELSE [orders |-> [O EXCEPT ![order_id].payment_status = new_payment_status],
          code   |-> HTTP_200_OK]

\* Mutant: the payment_status of every Pending order is set.
update_payment_status_all_pending(O, order_id, new_payment_status) ==
    IF order_id \notin DOMAIN O
    THEN [orders |-> O, code |-> HTTP_404_NOT_FOUND]
    ELSE IF O[order_id].status # PENDING
    THEN [orders |-> O, code |-> HTTP_400_BAD_REQUEST]
    ELSE [orders |-> [o \in DOMAIN O |->
                        IF O[o].status = PENDING
                        THEN [O[o] EXCEPT !.payment_status = new_payment_status]
                        ELSE O[o]],
          code   |-> HTTP_200_OK]

update_payment_status(O, order_id, new_payment_status) ==
    IF order_id \notin DOMAIN O
    THEN [orders |-> O, code |-> HTTP_404_NOT_FOUND]
    ELSE IF O[order_id].status # PENDING
    THEN [orders |-> O, code |-> HTTP_400_BAD_REQUEST]
    ELSE [orders |-> [O EXCEPT ![order_id].payment_status = new_payment_status],
          code   |-> HTTP_200_OK]

\* ------------------------------------------------------------ process_payment_webhook
\* Mutant: the status of the event is not validated.
process_payment_webhook_unvalidated(O, order_id, payment_status) ==
    update_payment_status(O, order_id, payment_status)

\* Mutant: only a Paid event is accepted.
process_payment_webhook_paid_only(O, order_id, payment_status) ==
    IF payment_status # PAID
    THEN [orders |-> O, code |-> HTTP_400_BAD_REQUEST]
    ELSE update_payment_status(O, order_id, payment_status)

process_payment_webhook(O, order_id, payment_status) ==
    IF payment_status \notin {PAID, FAILED}
    THEN [orders |-> O, code |-> HTTP_400_BAD_REQUEST]
    ELSE update_payment_status(O, order_id, payment_status)

\* ------------------------------------------------------------ webhook signature
\* Text is a sequence of code points, a request body a sequence of bytes.
\* settings.webhook_secret.encode('utf-8'): the bytes of "dev"
webhook_secret == <<100, 101, 118>>

RECURSIVE sum_bytes(_)
sum_bytes(b) == IF b = <<>> THEN 0 ELSE Head(b) + sum_bytes(Tail(b))

RECURSIVE weighted_bytes(_, _)
weighted_bytes(b, k) ==
    IF b = <<>> THEN 0 ELSE k * Head(b) + weighted_bytes(Tail(b), k + 1)

\* One hex digit as bytes.hex() writes it: "0".."9", "a".."f" (lowercase)
hex_char(d) == IF d < 10 THEN 48 + d ELSE 87 + d

\* hmac.new(secret, body, hashlib.sha256).hexdigest(). SHA-256 is replaced by a
\* keyed checksum of one byte, written as two lowercase hex digits: a function
\* of the key and of every byte of the body and its position.
hmac_hexdigest(secret, body) ==
    LET digest == (sum_bytes(secret) + 16 * Len(body) + 9 * weighted_bytes(body, 1)) % 256
    IN  <<hex_char(digest \div 16), hex_char(digest % 16)>>

is_ascii(text) == \A i \in 1..Len(text) : text[i] < 128

\* hmac.compare_digest(a, b) on two str: raises TypeError unless both are ASCII
compare_digest_raises(a, b) == ~ (is_ascii(a) /\ is_ascii(b))

\* Mutant: the comparison folds case first.
RECURSIVE lower_text(_)
lower_text(text) ==
    IF text = <<>> THEN <<>>
    ELSE <<IF Head(text) \in 65..90 THEN Head(text) + 32 ELSE Head(text)>>
            \o lower_text(Tail(text))

compare_digest_casefold(a, b) == lower_text(a) = lower_text(b)

\* hmac.compare_digest(a, b) when it does not raise: equality of the two texts
compare_digest(a, b) == a = b

\* request.headers.get("X-Signature"): None when the header is not sent
NoHeader == [present |-> FALSE, value |-> <<>>]
Header(text) == [present |-> TRUE, value |-> text]

\* verify_webhook_signature(request) -> the raw body, or the HTTP error raised.
\* "not signature_header" is true of a missing header and of an empty one. The
\* TypeError of compare_digest is no HTTPException: the request is answered 500.
verify_webhook_signature(signature_header, body) ==
    IF ~signature_header.present \/ signature_header.value = <<>>
    THEN [ok |-> FALSE, code |-> HTTP_401_UNAUTHORIZED, body |-> <<>>]
    ELSE IF body = <<>>
    THEN [ok |-> FALSE, code |-> HTTP_400_BAD_REQUEST, body |-> <<>>]
    ELSE IF compare_digest_raises(hmac_hexdigest(webhook_secret, body),
                                  signature_header.value)
    THEN [ok |-> FALSE, code |-> HTTP_500_INTERNAL_SERVER_ERROR, body |-> <<>>]
    ELSE IF ~compare_digest(hmac_hexdigest(webhook_secret, body),
                            signature_header.value)
    THEN [ok |-> FALSE, code |-> HTTP_401_UNAUTHORIZED, body |-> <<>>]
    ELSE [ok |-> TRUE, code |-> HTTP_200_OK, body |-> body]

\* ------------------------------------------------------------ webhook payload
\* The JSON text {"order_id": ..., "payment_status": ...} is modelled as two
\* bytes: the order id and the number of the payment status.
payment_status_names == <<UNPAID, PAID, FAILED>>

\* json.loads(body.decode('utf-8')) and PaymentWebhookPayload(**payload_dict):
\* a body that is not such a text, or names no PaymentStatus, is refused (400).
parse_payload(body) ==
    IF Len(body) = 2 /\ body[1] >= 1 /\ body[2] \in DOMAIN payment_status_names
    THEN [ok |-> TRUE, order_id |-> body[1],
          payment_status |-> payment_status_names[body[2]]]
    ELSE [ok |-> FALSE, order_id |-> 0, payment_status |-> UNPAID]

\* The text a payment processor sends for (order_id, payment_status)
payload_bytes(order_id, payment_status) ==
    <<order_id,
      CHOOSE k \in DOMAIN payment_status_names : payment_status_names[k] = payment_status>>

\* POST /payment-webhook: verify, parse, process
payment_webhook(O, signature_header, body) ==
    LET verified == verify_webhook_signature(signature_header, body)
        payload  == parse_payload(verified.body)
    IN  IF ~verified.ok
        THEN [orders |-> O, code |-> verified.code, order_id |-> 0]
        ELSE IF ~payload.ok
        THEN [orders |-> O, code |-> HTTP_400_BAD_REQUEST, order_id |-> 0]
        ELSE [orders   |-> process_payment_webhook(O, payload.order_id,
                                                   payload.payment_status).orders,
              code     |-> process_payment_webhook(O, payload.order_id,
                                                   payload.payment_status).code,
              order_id |-> payload.order_id]

\* ------------------------------------------------------------ products
\* Product(price, quantity) under a fresh id
create_product(P, seq, product_data) ==
    [p \in DOMAIN P \cup {seq + 1} |->
        IF p = seq + 1
        THEN [price |-> product_data.price, quantity |-> product_data.quantity]
        ELSE P[p]]

\* for field, value in update_data.items(): setattr(db_product, field, value)
set_fields(row, update_data) ==
    [f \in DOMAIN row |-> IF f \in DOMAIN update_data THEN update_data[f] ELSE row[f]]

\* Mutant: a price change is carried into the lines already sold.
update_product_reprices(P, O, product_id, product_data) ==
    IF product_id \notin DOMAIN P
    THEN [products |-> P, orders |-> O, code |-> HTTP_404_NOT_FOUND]
    ELSE [products |-> [P EXCEPT ![product_id] = set_fields(@, product_data)],
          orders   |-> [o \in DOMAIN O |->
                         [O[o] EXCEPT !.order_items =
                            [i \in DOMAIN O[o].order_items |->
                               IF O[o].order_items[i].product_id = product_id
                               THEN [O[o].order_items[i] EXCEPT !.price_at_purchase =
                                        set_fields(P[product_id], product_data).price]
                               ELSE O[o].order_items[i]]]],
          code     |-> HTTP_200_OK]

update_product(P, O, product_id, product_data) ==
    IF product_id \notin DOMAIN P
    THEN [products |-> P, orders |-> O, code |-> HTTP_404_NOT_FOUND]
    ELSE [products |-> [P EXCEPT ![product_id] = set_fields(@, product_data)],
          orders   |-> O,
          code     |-> HTTP_200_OK]

\* ForeignKey('products.id', ondelete='RESTRICT'): some order line holds the id
referenced(O, product_id) ==
    \E o \in DOMAIN O : \E i \in 1..Len(O[o].order_items) :
        O[o].order_items[i].product_id = product_id

\* db.delete(db_product) on a product some line references: Product.order_items
\* is a plain relationship (no passive_deletes), so the flush first detaches the
\* lines (UPDATE order_items SET product_id = NULL), which the NOT NULL column
\* refuses. The handler rolls back; the error text does not contain
\* "foreign key constraint", so the exception is re-raised and the request is
\* answered 500. Nothing is deleted.
delete_product(P, O, product_id) ==
    IF product_id \notin DOMAIN P
    THEN [products |-> P, code |-> HTTP_404_NOT_FOUND]
    ELSE IF referenced(O, product_id)
    THEN [products |-> P, code |-> HTTP_500_INTERNAL_SERVER_ERROR]
    ELSE [products |-> [p \in DOMAIN P \ {product_id} |-> P[p]],
          code     |-> HTTP_204_NO_CONTENT]

\* ------------------------------------------------------------ state machine
NoRequest == [op |-> "none", code |-> 0, id |-> 0, req |-> <<>>, missing |-> <<>>]

Response(op, code, id, req, missing) ==
    [op |-> op, code |-> code, id |-> id, req |-> req, missing |-> missing]

IdleSession == [pc |-> "idle"]

\* A freshly migrated database: no product, no order, no request in flight.
Init ==
    /\ products = <<>>
    /\ product_seq = 0
    /\ orders = <<>>
    /\ last = NoRequest
    /\ sess = [s \in Sessions |-> IdleSession]

\* POST /products
CreateProduct(product_data) ==
    /\ product_seq < MaxProducts
    /\ products' = create_product(products, product_seq, product_data)
    /\ product_seq' = product_seq + 1
    /\ last' = Response("create_product", HTTP_201_CREATED, product_seq + 1, <<>>, <<>>)
    /\ UNCHANGED <<orders, sess>>

\* PUT /products/{id}
UpdateProduct(product_id, product_data) ==
    \E r \in {update_product(products, orders, product_id, product_data)} :
        /\ products' = r.products
        /\ orders' = r.orders
        /\ last' = Response("update_product", r.code, product_id, <<>>, <<>>)
        /\ UNCHANGED <<product_seq, sess>>

\* DELETE /products/{id}
DeleteProduct(product_id) ==
    \E r \in {delete_product(products, orders, product_id)} :
        /\ products' = r.products
        /\ last' = Response("delete_product", r.code, product_id, <<>>, <<>>)
        /\ UNCHANGED <<product_seq, orders, sess>>

\* POST /orders, while fewer than max_orders orders are on file
CreateOrderWithin(order_data, max_orders) ==
    \E r \in {create_order(products, orders, order_data)} :
        /\ r.code = HTTP_201_CREATED => Len(orders) < max_orders
        /\ products' = r.products
        /\ orders' = r.orders
        /\ last' = Response("create_order", r.code, Len(r.orders), order_data, r.missing)
        /\ UNCHANGED <<product_seq, sess>>

CreateOrder(order_data) == CreateOrderWithin(order_data, MaxOrders)

\* The status the order had when the request arrived
status_before(O, order_id) ==
    IF order_id \in DOMAIN O THEN O[order_id].status ELSE "none"

\* PUT /orders/{id}/status
UpdateOrderStatus(order_id, new) ==
    \E r \in {update_order_status(products, orders, order_id, new)} :
        /\ products' = r.products
        /\ orders' = r.orders
        /\ last' = [op |-> "update_order_status", code |-> r.code, id |-> order_id,
                    req |-> new, missing |-> <<>>,
                    before |-> status_before(orders, order_id)]
        /\ UNCHANGED <<product_seq, sess>>

\* The webhook requests drawn: the bodies a processor sends for the orders, a
\* body that is no payload, and the empty body
WebhookBodies ==
    {<<>>, <<0>>} \cup {payload_bytes(o, s) : o \in OrderIds, s \in PaymentStatus}

\* Texts that differ from a digest: its uppercase form, a digest under another
\* key, and the digest with a non-ASCII first character
upper_text(text) ==
    [i \in 1..Len(text) |-> IF text[i] \in 97..122 THEN text[i] - 32 ELSE text[i]]

non_ascii_text(text) == [i \in 1..Len(text) |-> IF i = 1 THEN 233 ELSE text[i]]

SignatureHeaders(body) ==
    {NoHeader, Header(<<>>)}
        \cup {Header(t) : t \in {hmac_hexdigest(webhook_secret, body),
                                 upper_text(hmac_hexdigest(webhook_secret, body)),
                                 hmac_hexdigest(<<>>, body),
                                 non_ascii_text(hmac_hexdigest(webhook_secret, body))}}

WebhookRequest(signature_header, body) ==
    [signature |-> signature_header, body |-> body]

\* The payment_status the order had when the request arrived
payment_status_before(O, order_id) ==
    IF order_id \in DOMAIN O THEN O[order_id].payment_status ELSE "none"

\* POST /payment-webhook
PaymentWebhook(signature_header, body) ==
    \E r \in {payment_webhook(orders, signature_header, body)} :
        /\ orders' = r.orders
        /\ last' = [op |-> "payment_webhook", code |-> r.code, id |-> r.order_id,
                    req |-> WebhookRequest(signature_header, body),
                    missing |-> <<>>,
                    before |-> payment_status_before(orders, r.order_id)]
        /\ UNCHANGED <<products, product_seq, sess>>

Next ==
    \/ \E d \in ProductCreate : CreateProduct(d)
    \/ \E p \in ProductIds, d \in ProductUpdate : UpdateProduct(p, d)
    \/ \E p \in ProductIds : DeleteProduct(p)
    \/ \E d \in OrderCreate : CreateOrder(d)
    \/ \E o \in OrderIds, s \in OrderStatus : UpdateOrderStatus(o, s)
    \/ \E b \in WebhookBodies : \E h \in SignatureHeaders(b) : PaymentWebhook(h, b)

Spec == Init /\ [][Next]_vars

\* ------------------------------------------------------------ the verifier alone
\* verify_webhook_signature applied to every body of up to MaxBodyLen bytes and
\* every header drawn for any of these bodies.
VerifyBodies == UNION {[1..k -> 0..MaxByte] : k \in 0..MaxBodyLen}

VerifyHeaders == UNION {SignatureHeaders(b) : b \in VerifyBodies}

VerifySignature(signature_header, body) ==
    \E r \in {verify_webhook_signature(signature_header, body)} :
        /\ last = NoRequest
        /\ last' = [op |-> "verify_webhook_signature", code |-> r.code, id |-> 0,
                    req |-> WebhookRequest(signature_header, body),
                    missing |-> <<>>, ok |-> r.ok, body |-> r.body]
        /\ UNCHANGED <<products, product_seq, orders, sess>>

NextVerify == \E b \in VerifyBodies : \E h \in VerifyHeaders : VerifySignature(h, b)

SpecVerify == Init /\ [][NextVerify]_vars

\* ------------------------------------------------------------ payment events
\* NumPayOrders Pending orders of one unit of product 1 are on file (created by
\* create_order from a stock of NumPayOrders); payment events and status
\* updates arrive for them.
PayOrderIds == 1..NumPayOrders

RECURSIVE orders_on_file(_)
orders_on_file(n) ==
    IF n = 0
    THEN [products |-> <<[price |-> 1, quantity |-> NumPayOrders]>>, orders |-> <<>>]
    ELSE create_order(orders_on_file(n - 1).products, orders_on_file(n - 1).orders,
                      [customer_id |-> 1,
                       products |-> <<[product_id |-> 1, quantity |-> 1]>>])

InitPay ==
    /\ products = orders_on_file(NumPayOrders).products
    /\ product_seq = 1
    /\ orders = orders_on_file(NumPayOrders).orders
    /\ last = NoRequest
    /\ sess = [s \in Sessions |-> IdleSession]

PayWebhookBodies ==
    {<<>>, <<0>>} \cup {payload_bytes(o, s) : o \in PayOrderIds, s \in PaymentStatus}

NextPay ==
    \/ \E o \in PayOrderIds, s \in OrderStatus : UpdateOrderStatus(o, s)
    \/ \E b \in PayWebhookBodies : \E h \in SignatureHeaders(b) : PaymentWebhook(h, b)

SpecPay == InitPay /\ [][NextPay]_vars

\* ------------------------------------------------------------ orders, failing commits
\* A catalog of MaxProducts products at any prices, MaxStock units of each, and
\* no order. Orders of up to LargeQty units a line arrive from NumCustomers
\* customers and are updated; a commit may fail (the database raises on COMMIT).
LargeOrderCreate ==
    [customer_id : 1..NumCustomers,
     products : SeqsUpTo([product_id : ProductIds, quantity : 1..LargeQty], MaxLines)]

InitOrders ==
    /\ products \in [ProductIds -> [price : 1..MaxPrice, quantity : {MaxStock}]]
    /\ product_seq = MaxProducts
    /\ orders = <<>>
    /\ last = NoRequest
    /\ sess = [s \in Sessions |-> IdleSession]

\* What the session's transaction holds when create_order reaches db.commit():
\* the order and its lines (flushed, uncommitted) and the deducted quantities.
pending_order(P, O, plan) ==
    [products |-> flush_quantities(P, plan.writes), orders |-> Append(O, plan.order)]

\* Mutant: the rollback undoes the deductions and keeps the flushed order.
rollback_keeps_flushed(committed, pending) ==
    [products |-> committed.products, orders |-> pending.orders]

\* db.rollback(): the transaction's writes are discarded
rollback(committed, pending) == committed

\* db.close() in get_db's finally: an open transaction is rolled back
close(committed, pending) == committed

\* create_order when db.commit() raises: except -> db.rollback() -> 500
create_order_commit_fails(P, O, order_data) ==
    LET plan == plan_order(query_products(P, product_ids_of(order_data)), order_data)
    IN  IF plan.code # HTTP_201_CREATED
        THEN [products |-> P, orders |-> O, code |-> plan.code, missing |-> plan.missing]
        ELSE LET db == rollback([products |-> P, orders |-> O],
                                pending_order(P, O, plan))
             IN  [products |-> db.products, orders |-> db.orders,
                  code |-> HTTP_500_INTERNAL_SERVER_ERROR, missing |-> <<>>]

\* update_order_status when db.commit() raises: the handler catches nothing, the
\* exception leaves the endpoint (answered 500) and get_db closes the session.
update_order_status_commit_fails(P, O, order_id, new) ==
    LET r == update_order_status(P, O, order_id, new)
    IN  IF r.code # HTTP_200_OK
        THEN r
        ELSE LET db == close([products |-> P, orders |-> O],
                             [products |-> r.products, orders |-> r.orders])
             IN  [products |-> db.products, orders |-> db.orders,
                  code |-> HTTP_500_INTERNAL_SERVER_ERROR]

\* POST /orders, the commit fails
CreateOrderCommitFails(order_data) ==
    \E r \in {create_order_commit_fails(products, orders, order_data)} :
        /\ r.code = HTTP_500_INTERNAL_SERVER_ERROR
        /\ Len(orders) < MaxOrders
        /\ products' = r.products
        /\ orders' = r.orders
        /\ last' = [op |-> "create_order", code |-> r.code, id |-> 0,
                    req |-> order_data, missing |-> r.missing, commit_failed |-> TRUE]
        /\ UNCHANGED <<product_seq, sess>>

\* PUT /orders/{id}/status, the commit fails
UpdateOrderStatusCommitFails(order_id, new) ==
    \E r \in {update_order_status_commit_fails(products, orders, order_id, new)} :
        /\ r.code = HTTP_500_INTERNAL_SERVER_ERROR
        /\ products' = r.products
        /\ orders' = r.orders
        /\ last' = [op |-> "update_order_status", code |-> r.code, id |-> order_id,
                    req |-> new, missing |-> <<>>,
                    before |-> status_before(orders, order_id),
                    commit_failed |-> TRUE]
        /\ UNCHANGED <<product_seq, sess>>

NextOrders ==
    \/ \E d \in LargeOrderCreate : CreateOrder(d)
    \/ \E d \in LargeOrderCreate : CreateOrderCommitFails(d)
    \/ \E o \in OrderIds, s \in OrderStatus : UpdateOrderStatus(o, s)
    \/ \E o \in OrderIds, s \in OrderStatus : UpdateOrderStatusCommitFails(o, s)

SpecOrders == InitOrders /\ [][NextOrders]_vars

\* ------------------------------------------------------------ orders on a fixed catalog
\* A catalog of MaxProducts products, MaxStock units of each, that nobody edits:
\* up to NumStockOrders orders are created and their status updated.
InitStock ==
    /\ products = [p \in ProductIds |-> [price |-> 1, quantity |-> MaxStock]]
    /\ product_seq = MaxProducts
    /\ orders = <<>>
    /\ last = NoRequest
    /\ sess = [s \in Sessions |-> IdleSession]

NextStock ==
    \/ \E d \in OrderCreate : CreateOrderWithin(d, NumStockOrders)
    \/ \E o \in 1..NumStockOrders, s \in OrderStatus : UpdateOrderStatus(o, s)

SpecStock == InitStock /\ [][NextStock]_vars

\* ------------------------------------------------------------ get_orders
\* The listing reads Order.created_at (default datetime.utcnow, no unique
\* constraint), which no other handler reads: the orders on file carry it here.
\* Rows are named by their position in `orders`.
MAX_PAGE_SIZE == 100

PageSizes == {0, 1, 2, MAX_PAGE_SIZE, MAX_PAGE_SIZE + 1}

\* page, page_size, and the optional filters ("any": the parameter is None)
ListRequest ==
    [page : 0..MaxPage, page_size : PageSizes,
     status : {"any"} \cup OrderStatus,
     payment_status : {"any"} \cup PaymentStatus]

\* query.filter(Order.status == status), .filter(Order.payment_status == ...)
filter_orders(O, req) ==
    {o \in DOMAIN O :
        /\ req.status # "any" => O[o].status = req.status
        /\ req.payment_status # "any" => O[o].payment_status = req.payment_status}

\* query.order_by(Order.created_at.desc()): every sequence of the rows in which
\* no row comes before a row created later; rows of one created_at come in an
\* order the database chooses at each query.
order_by_created_at_desc(O, rows) ==
    {q \in [1..Cardinality(rows) -> rows] :
        /\ \A i, j \in DOMAIN q : q[i] = q[j] => i = j
        /\ \A i, j \in DOMAIN q : i < j => O[q[i]].created_at >= O[q[j]].created_at}

\* .offset(offset).limit(limit)
offset_limit(q, offset, limit) ==
    [i \in 1..(IF Len(q) - offset < 0 THEN 0
               ELSE IF Len(q) - offset < limit THEN Len(q) - offset
               ELSE limit) |-> q[offset + i]]

\* The answers get_orders can give: 400 for a page below 1 or a page_size
\* outside 1..100 (the endpoint's Query(ge=1, le=100) refuses the same values
\* before the service is called), else the total and the page of rows.
get_orders(O, req) ==
    IF req.page < 1 \/ req.page_size < 1 \/ req.page_size > MAX_PAGE_SIZE
    THEN {[code |-> HTTP_400_BAD_REQUEST, items |-> <<>>, total |-> 0]}
    ELSE {[code  |-> HTTP_200_OK,
           items |-> offset_limit(q, (req.page - 1) * req.page_size, req.page_size),
           total |-> Cardinality(filter_orders(O, req))] :
            q \in order_by_created_at_desc(O, filter_orders(O, req))}

\* created_at of the orders in the sequence of their inserts: each session takes
\* datetime.utcnow() at its flush, the clock does not go back, and inserts of
\* concurrent sessions may fall within one tick of it.
CreationTimes ==
    {t \in [1..NumListOrders -> 1..MaxClock] :
        \A i, j \in 1..NumListOrders : i < j => t[i] <= t[j]}

\* NumListOrders orders on file, as create_order made them and status updates
\* and payment events left them.
InitList ==
    /\ products = <<[price |-> 1, quantity |-> 0]>>
    /\ product_seq = 1
    /\ \E t \in CreationTimes :
       \E st \in [1..NumListOrders -> {PENDING, COMPLETED}] :
       \E pay \in [1..NumListOrders -> {UNPAID, PAID}] :
          orders = [o \in 1..NumListOrders |->
                      [customer_id    |-> 1,
                       total_price    |-> 1,
                       status         |-> st[o],
                       payment_status |-> pay[o],
                       order_items    |-> <<[product_id |-> 1, quantity |-> 1,
                                             price_at_purchase |-> 1]>>,
                       created_at     |-> t[o]]]
    /\ last = NoRequest
    /\ sess = [s \in Sessions |-> IdleSession]

\* GET /orders, once, and once more with the same parameters
GetOrders(req) ==
    /\ \/ last = NoRequest
       \/ last.op = "get_orders" /\ last.nth = 1 /\ last.req = req
    /\ \E r \in get_orders(orders, req) :
        last' = [op |-> "get_orders", code |-> r.code, id |-> 0, req |-> req,
                 missing |-> <<>>, items |-> r.items, total |-> r.total,
                 nth |-> IF last = NoRequest THEN 1 ELSE 2]
    /\ UNCHANGED <<products, product_seq, orders, sess>>

NextList == \E req \in ListRequest : GetOrders(req)

SpecList == InitList /\ [][NextList]_vars

\* ------------------------------------------------------------ concurrent requests
\* Each request runs in a database session of its own (SessionLocal(), autocommit
\* and autoflush off) on PostgreSQL's default isolation, READ COMMITTED: a query
\* reads the rows committed at that moment, and nothing the session writes is
\* visible to another session before its commit. Between the query of create_order
\* and its commit other sessions may commit.

\* A database holding MaxProducts products, RaceStock units of each in stock,
\* and no order.
InitConc ==
    /\ products = [p \in ProductIds |-> [price |-> 1, quantity |-> RaceStock]]
    /\ product_seq = MaxProducts
    /\ orders = <<>>
    /\ last = NoRequest
    /\ sess = [s \in Sessions |-> IdleSession]

\* create_order up to the stock check: the session queries the products and
\* rejects the request with 404 or 400.
CreateOrderReject(s, order_data) ==
    /\ sess[s].pc = "idle"
    /\ \E plan \in {plan_order(query_products(products, product_ids_of(order_data)),
                               order_data)} :
        /\ plan.code # HTTP_201_CREATED
        /\ sess' = [sess EXCEPT ![s] = [pc |-> "done", code |-> plan.code]]
        /\ last' = Response("create_order", plan.code, Len(orders), order_data,
                            plan.missing)
    /\ UNCHANGED <<products, product_seq, orders>>

\* Mutant: the flush publishes the order row, without lines, to other sessions.
flush_order_autocommit(O, order) == Append(O, [order EXCEPT !.order_items = <<>>])

\* db.flush() after db.add(db_order): the INSERT runs inside the open
\* transaction; the orders other sessions can read are the committed ones.
flush_order(O, order) == O

\* Mutant: the database checks no foreign key when the lines are inserted.
foreign_keys_hold_unchecked(P, order) == TRUE

\* order_items.product_id REFERENCES products(id): at the INSERT of the lines
\* every line's product must be a committed row
foreign_keys_hold(P, order) ==
    \A i \in 1..Len(order.order_items) : order.order_items[i].product_id \in DOMAIN P

\* create_order up to db.flush(): the session has queried the products, passed
\* both checks and holds the new order and the deducted quantities, uncommitted.
CreateOrderRead(s, order_data) ==
    /\ sess[s].pc = "idle"
    /\ \E plan \in {plan_order(query_products(products, product_ids_of(order_data)),
                               order_data)} :
        /\ plan.code = HTTP_201_CREATED
        /\ sess' = [sess EXCEPT ![s] = [pc |-> "flush", req |-> order_data,
                                        plan |-> plan]]
    /\ UNCHANGED <<products, product_seq, orders, last>>

\* db.flush(): the order row is inserted in the session's transaction.
CreateOrderFlush(s) ==
    /\ sess[s].pc = "flush"
    /\ orders' = flush_order(orders, sess[s].plan.order)
    /\ sess' = [sess EXCEPT ![s].pc = "commit"]
    /\ UNCHANGED <<products, product_seq, last>>

\* db.commit(): the lines are inserted and the quantities updated; order, lines
\* and product quantities become visible together. When a product of the order
\* was deleted since the query, the INSERT violates the foreign key (and the
\* UPDATE matches no row): the handler rolls back and answers 500.
CreateOrderCommit(s) ==
    /\ sess[s].pc = "commit"
    /\ IF foreign_keys_hold(products, sess[s].plan.order)
       THEN /\ products' = flush_quantities(products, sess[s].plan.writes)
            /\ orders' = Append(orders, sess[s].plan.order)
            /\ last' = Response("create_order", HTTP_201_CREATED, Len(orders) + 1,
                                sess[s].req, <<>>)
            /\ sess' = [sess EXCEPT ![s] = [pc |-> "done", code |-> HTTP_201_CREATED,
                                            op |-> "create_order",
                                            req |-> sess[s].req]]
       ELSE /\ products' = products
            /\ orders' = orders
            /\ last' = Response("create_order", HTTP_500_INTERNAL_SERVER_ERROR, 0,
                                sess[s].req, <<>>)
            /\ sess' = [sess EXCEPT ![s] = [pc |-> "done",
                                            code |-> HTTP_500_INTERNAL_SERVER_ERROR,
                                            op |-> "create_order",
                                            req |-> sess[s].req]]
    /\ UNCHANGED product_seq

NextConc ==
    \/ \E s \in Sessions, d \in OrderCreate : CreateOrderReject(s, d)
    \/ \E s \in Sessions, d \in OrderCreate : CreateOrderRead(s, d)
    \/ \E s \in Sessions : CreateOrderFlush(s)
    \/ \E s \in Sessions : CreateOrderCommit(s)

SpecConc == InitConc /\ [][NextConc]_vars

\* ------------------------------------------------------------ concurrent transactions
\* createOrder, product delete, order status update and payment status update
\* run concurrently, one request per session, on a catalog in stock and one
\* Pending order on file.
order_on_file ==
    create_order([p \in ProductIds |->
                     [price |-> 1,
                      quantity |-> IF p = 1 THEN RaceStock + 1 ELSE RaceStock]],
                 <<>>,
                 [customer_id |-> 1,
                  products |-> <<[product_id |-> 1, quantity |-> 1]>>])

InitTxn ==
    /\ products = order_on_file.products
    /\ product_seq = MaxProducts
    /\ orders = order_on_file.orders
    /\ last = NoRequest
    /\ sess = [s \in Sessions |-> IdleSession]

TxnOrderIds == 1..NumSessions

\* delete_product up to db.delete(): get_product finds the row or not (404).
DeleteProductRead(s, product_id) ==
    /\ sess[s].pc = "idle"
    /\ sess' = [sess EXCEPT ![s] =
                  IF product_id \in DOMAIN products
                  THEN [pc |-> "delete_load", op |-> "delete_product",
                        product_id |-> product_id]
                  ELSE [pc |-> "done", op |-> "delete_product",
                        code |-> HTTP_404_NOT_FOUND, product_id |-> product_id]]
    /\ UNCHANGED <<products, product_seq, orders, last>>

\* db.commit(), the flush's first statement: Product.order_items is loaded, the
\* lines committed at this moment, to detach them from the product.
DeleteProductLoad(s) ==
    /\ sess[s].pc = "delete_load"
    /\ sess' = [sess EXCEPT ![s] =
                  [pc |-> "delete_commit", op |-> "delete_product",
                   product_id |-> sess[s].product_id,
                   children |-> referenced(orders, sess[s].product_id)]]
    /\ UNCHANGED <<products, product_seq, orders, last>>

\* The rest of the flush and the COMMIT, for the lines the session loaded:
\* with lines, UPDATE order_items SET product_id = NULL violates NOT NULL (500);
\* with none, DELETE FROM products violates the foreign key of a line committed
\* since ("... violates foreign key constraint ...", 400), deletes the row
\* (204), or matches no row, the product being gone, which is only warned
\* about (204).
delete_commit(P, O, product_id, children) ==
    IF children
    THEN [products |-> P, code |-> HTTP_500_INTERNAL_SERVER_ERROR]
    ELSE IF referenced(O, product_id)
    THEN [products |-> P, code |-> HTTP_400_BAD_REQUEST]
    ELSE [products |-> [p \in DOMAIN P \ {product_id} |-> P[p]],
          code     |-> HTTP_204_NO_CONTENT]

DeleteProductCommit(s) ==
    /\ sess[s].pc = "delete_commit"
    /\ \E r \in {delete_commit(products, orders, sess[s].product_id,
                               sess[s].children)} :
        /\ products' = r.products
        /\ sess' = [sess EXCEPT ![s] = [pc |-> "done", op |-> "delete_product",
                                        code |-> r.code,
                                        product_id |-> sess[s].product_id]]
    /\ UNCHANGED <<product_seq, orders, last>>

\* update_order_status up to the restore loop: get_order reads the order (404
\* when there is none), the transition is validated (400) on the status read.
UpdateOrderStatusRead(s, order_id, new) ==
    /\ sess[s].pc = "idle"
    /\ sess' = [sess EXCEPT ![s] =
                  IF order_id \notin DOMAIN orders
                  THEN [pc |-> "done", op |-> "update_order_status",
                        code |-> HTTP_404_NOT_FOUND]
                  ELSE IF ~validate_status_transition(orders[order_id].status, new)
                  THEN [pc |-> "done", op |-> "update_order_status",
                        code |-> HTTP_400_BAD_REQUEST]
                  ELSE [pc |-> IF restores_inventory(orders[order_id].status, new)
                               THEN "status_restore" ELSE "status_commit",
                        op |-> "update_order_status",
                        order_id |-> order_id, new |-> new,
                        before |-> orders[order_id].status,
                        items |-> orders[order_id].order_items,
                        writes |-> <<>>]]
    /\ UNCHANGED <<products, product_seq, orders, last>>

\* The restore loop: each line's product is queried, the rows committed at this
\* moment, and product.quantity += order_item.quantity on the session's objects.
UpdateOrderStatusRestore(s) ==
    /\ sess[s].pc = "status_restore"
    /\ LET ids == [i \in 1..Len(sess[s].items) |-> sess[s].items[i].product_id]
           restored == restore_inventory(query_products(products, ids), sess[s].items)
       IN  sess' = [sess EXCEPT ![s].pc = "status_commit",
                                ![s].writes = [p \in DOMAIN restored |->
                                                  restored[p].quantity]]
    /\ UNCHANGED <<products, product_seq, orders, last>>

\* db.commit() of update_order_status: UPDATE orders SET status (when it differs
\* from the status read) and UPDATE products SET quantity for the restored
\* products, visible together. A restored product deleted since its query makes
\* the UPDATE match no row: the flush raises, nothing is committed, 500.
UpdateOrderStatusCommit(s) ==
    /\ sess[s].pc = "status_commit"
    /\ IF DOMAIN sess[s].writes \subseteq DOMAIN products
       THEN /\ products' = flush_quantities(products, sess[s].writes)
            /\ orders' = IF sess[s].new # sess[s].before
                         THEN [orders EXCEPT ![sess[s].order_id].status = sess[s].new]
                         ELSE orders
            /\ sess' = [sess EXCEPT ![s] = [pc |-> "done", op |-> "update_order_status",
                                            code |-> HTTP_200_OK,
                                            order_id |-> sess[s].order_id,
                                            new |-> sess[s].new,
                                            before |-> sess[s].before]]
       ELSE /\ products' = products
            /\ orders' = orders
            /\ sess' = [sess EXCEPT ![s] = [pc |-> "done", op |-> "update_order_status",
                                            code |-> HTTP_500_INTERNAL_SERVER_ERROR]]
    /\ UNCHANGED <<product_seq, last>>

\* update_payment_status up to db.commit(): the order is read (404) and must be
\* Pending (400) as read.
UpdatePaymentStatusRead(s, order_id, new) ==
    /\ sess[s].pc = "idle"
    /\ \E r \in {update_payment_status(orders, order_id, new)} :
        sess' = [sess EXCEPT ![s] =
                  IF r.code # HTTP_200_OK
                  THEN [pc |-> "done", op |-> "update_payment_status", code |-> r.code]
                  ELSE [pc |-> "payment_commit", op |-> "update_payment_status",
                        order_id |-> order_id, new |-> new,
                        before |-> orders[order_id].payment_status]]
    /\ UNCHANGED <<products, product_seq, orders, last>>

\* db.commit() of update_payment_status: UPDATE orders SET payment_status, when
\* it differs from the payment status read.
UpdatePaymentStatusCommit(s) ==
    /\ sess[s].pc = "payment_commit"
    /\ orders' = IF sess[s].new # sess[s].before
                 THEN [orders EXCEPT ![sess[s].order_id].payment_status = sess[s].new]
                 ELSE orders
    /\ sess' = [sess EXCEPT ![s] = [pc |-> "done", op |-> "update_payment_status",
                                    code |-> HTTP_200_OK,
                                    order_id |-> sess[s].order_id,
                                    new |-> sess[s].new]]
    /\ UNCHANGED <<products, product_seq, last>>

NextTxn ==
    \/ \E s \in Sessions, d \in OrderCreate : CreateOrderReject(s, d)
    \/ \E s \in Sessions, d \in OrderCreate : CreateOrderRead(s, d)
    \/ \E s \in Sessions : CreateOrderFlush(s)
    \/ \E s \in Sessions : CreateOrderCommit(s)
    \/ \E s \in Sessions, p \in ProductIds : DeleteProductRead(s, p)
    \/ \E s \in Sessions : DeleteProductLoad(s)
    \/ \E s \in Sessions : DeleteProductCommit(s)
    \/ \E s \in Sessions, o \in TxnOrderIds, st \in OrderStatus :
            UpdateOrderStatusRead(s, o, st)
    \/ \E s \in Sessions : UpdateOrderStatusRestore(s)
    \/ \E s \in Sessions : UpdateOrderStatusCommit(s)
    \/ \E s \in Sessions, o \in TxnOrderIds, st \in {PAID, FAILED} :
            UpdatePaymentStatusRead(s, o, st)
    \/ \E s \in Sessions : UpdatePaymentStatusCommit(s)

SpecTxn == InitTxn /\ [][NextTxn]_vars

\* ================================================================ properties
\* Helpers of the properties below.
RECURSIVE SumSeq(_)
SumSeq(q) == IF q = <<>> THEN 0 ELSE Head(q) + SumSeq(Tail(q))

\* The quantity the lines `items` hold of product p
LineQty(items, p) ==
    SumSeq([i \in 1..Len(items) |->
                IF items[i].product_id = p THEN items[i].quantity ELSE 0])

\* The quantity of product p held by the orders that are not canceled
SoldQty(p) ==
    SumSeq([o \in 1..Len(orders) |->
                IF orders[o].status # CANCELED
                THEN LineQty(orders[o].order_items, p) ELSE 0])

\* The request just answered (in the state after the step) was a createOrder
AnsweredCreateOrder == last'.op = "create_order"

\* Some line of the request d names an existing product and asks for more than
\* that product's quantity in catalog P
SomeLineShort(P, d) ==
    \E i \in 1..Len(d.products) :
        /\ d.products[i].product_id \in DOMAIN P
        /\ d.products[i].quantity > P[d.products[i].product_id].quantity

\* The product ids the request d names that catalog P does not hold
AbsentIds(P, d) ==
    {d.products[i].product_id : i \in 1..Len(d.products)} \ DOMAIN P

\* No two lines of the request d name the same product
DistinctLines(d) ==
    \A i, j \in 1..Len(d.products) :
        d.products[i].product_id = d.products[j].product_id => i = j

\* ---------------------------------------------------------------- C1
\* C1: in every reachable state every product's quantity is >= 0.
C1_QuantityNonNegative ==
    \A p \in DOMAIN products : products[p].quantity >= 0

\* A createOrder has just taken the last unit of a product.
C1_Witness ==
    /\ last.op = "create_order"
    /\ last.code = HTTP_201_CREATED
    /\ \E i \in 1..Len(last.req.products) :
          products[last.req.products[i].product_id].quantity = 0

\* ---------------------------------------------------------------- C2
\* C2 (as claimed): under any interleaving of concurrent createOrder requests no
\* product's quantity goes below zero, and the quantity sold by the committed
\* orders never exceeds the stock that was available.
C2_NoOversell ==
    \A p \in DOMAIN products :
        /\ products[p].quantity >= 0
        /\ SoldQty(p) <= RaceStock

\* ---------------------------------------------------------------- C3
\* C3 (as claimed): a createOrder of which some line asks for more than its
\* product's current quantity fails with the insufficient-stock error (400), and
\* no order, no line and no product quantity changes. Stated for the requests
\* whose product ids are all in the catalog, so that every line has a product
\* with a current quantity.
C3_ShortLineIsInsufficientStock ==
    [][ (/\ AnsweredCreateOrder
         /\ AbsentIds(products, last'.req) = {}
         /\ SomeLineShort(products, last'.req))
            => /\ last'.code = HTTP_400_BAD_REQUEST
               /\ products' = products
               /\ orders' = orders ]_vars

\* What does hold of a createOrder with a short line: it is refused and changes
\* nothing; the refusal is 400 when every product exists and no two lines name
\* the same product, and 404 when some product id is absent.
C3_AllOrNothing ==
    [][ (AnsweredCreateOrder /\ SomeLineShort(products, last'.req))
            => /\ products' = products
               /\ orders' = orders
               /\ last'.code \in {HTTP_400_BAD_REQUEST, HTTP_404_NOT_FOUND}
               /\ AbsentIds(products, last'.req) # {}
                    => last'.code = HTTP_404_NOT_FOUND
               /\ (AbsentIds(products, last'.req) = {} /\ DistinctLines(last'.req))
                    => last'.code = HTTP_400_BAD_REQUEST ]_vars

\* ---------------------------------------------------------------- C4
\* C4: a createOrder naming a product id that is absent from the catalog fails
\* with not-found (404) and creates nothing: no order, no line, and no product
\* quantity changes.
C4_NotFoundCreatesNothing ==
    [][ (AnsweredCreateOrder /\ AbsentIds(products, last'.req) # {})
            => /\ last'.code = HTTP_404_NOT_FOUND
               /\ products' = products
               /\ orders' = orders ]_vars

\* A request with one line for an existing, stocked product and one line for an
\* absent product was rejected with 404.
C4_Witness ==
    /\ last.op = "create_order"
    /\ last.code = HTTP_404_NOT_FOUND
    /\ \E i, j \in 1..Len(last.req.products) :
          /\ last.req.products[i].product_id \notin DOMAIN products
          /\ last.req.products[j].product_id \in DOMAIN products
          /\ products[last.req.products[j].product_id].quantity
                >= last.req.products[j].quantity

\* ---------------------------------------------------------------- C5
\* C5 (as claimed): createOrder fails with not-found exactly when some requested
\* product id is absent from the catalog, and the ids it lists are exactly the
\* absent ones; a request naming only existing products, also one naming the
\* same product twice, is never rejected as not-found.
C5_NotFoundIffAbsent ==
    [][ AnsweredCreateOrder
            => /\ (last'.code = HTTP_404_NOT_FOUND)
                    <=> (AbsentIds(products, last'.req) # {})
               /\ last'.code = HTTP_404_NOT_FOUND
                    => {last'.missing[i] : i \in 1..Len(last'.missing)}
                          = AbsentIds(products, last'.req) ]_vars

C7_TotalsFrozen ==
    [][ /\ \A o \in DOMAIN orders :
              /\ o \in DOMAIN orders'
              /\ orders'[o].total_price = orders[o].total_price
              /\ orders'[o].order_items = orders[o].order_items
        /\ \A o \in DOMAIN orders' \ DOMAIN orders :
              \A i \in 1..Len(orders'[o].order_items) :
                  orders'[o].order_items[i].price_at_purchase
                      = products[orders'[o].order_items[i].product_id].price ]_vars

\* The price of a product has just been changed, and an order holds a line of
\* that product at the earlier price.
C7_Witness ==
    /\ last.op = "update_product"
    /\ last.code = HTTP_200_OK
    /\ \E o \in DOMAIN orders : \E i \in 1..Len(orders[o].order_items) :
          /\ orders[o].order_items[i].product_id = last.id
          /\ orders[o].order_items[i].price_at_purchase # products[last.id].price

\* ---------------------------------------------------------------- C8
\* The (current, new) pairs the claim says the status machine accepts
AcceptedTransitions ==
    {<<PENDING, COMPLETED>>, <<PENDING, CANCELED>>}
        \cup {<<x, x>> : x \in OrderStatus}

\* C8: the status-transition predicate accepts exactly Pending->Completed,
\* Pending->Canceled and every X->X, and rejects every other pair; an
\* updateOrderStatus on an existing order succeeds for exactly those pairs and
\* is answered 400 for the others.
C8_TransitionTable ==
    [][ /\ \A c, n \in OrderStatus :
              validate_status_transition(c, n) <=> <<c, n>> \in AcceptedTransitions
        /\ (last'.op = "update_order_status" /\ last'.id \in DOMAIN orders)
              => last'.code =
                    IF <<orders[last'.id].status, last'.req>> \in AcceptedTransitions
                    THEN HTTP_200_OK ELSE HTTP_400_BAD_REQUEST ]_vars

\* A transition out of Canceled has just been rejected.
C8_Witness ==
    /\ last.op = "update_order_status"
    /\ last.code = HTTP_400_BAD_REQUEST
    /\ orders[last.id].status = CANCELED
    /\ last.req = PENDING

\* ---------------------------------------------------------------- C9
\* C9: terminal states are absorbing. An order whose status is Completed or
\* Canceled has the same status after every step.
C9_TerminalAbsorbing ==
    [][ \A o \in DOMAIN orders :
            orders[o].status \in {COMPLETED, CANCELED}
                => /\ o \in DOMAIN orders'
                   /\ orders'[o].status = orders[o].status ]_vars

\* A request to cancel a Completed order has just been answered, and the order
\* is still Completed.
C9_Witness ==
    /\ last.op = "update_order_status"
    /\ last.req = CANCELED
    /\ last.id \in DOMAIN orders
    /\ orders[last.id].status = COMPLETED

AnsweredWebhook == last'.op = "payment_webhook"

\* The digest the verifier expects for a body
ExpectedSignature(body) == hmac_hexdigest(webhook_secret, body)

\* The header is sent, non-empty, and equals the expected digest of the body
ValidSignature(req) ==
    /\ req.signature.present
    /\ req.signature.value = ExpectedSignature(req.body)

\* An authenticated event (order_id, payment_status) was delivered
AnsweredEvent ==
    /\ AnsweredWebhook
    /\ ValidSignature(last'.req)
    /\ parse_payload(last'.req.body).ok

EventOrder == parse_payload(last'.req.body).order_id
EventStatus == parse_payload(last'.req.body).payment_status

\* ---------------------------------------------------------------- C11
\* C11 (as claimed): a payment-webhook request whose X-Signature header is
\* missing or is not the keyed hash of the raw body is rejected with 401 and
\* changes no order and no product. Stated for the requests with a non-empty
\* body (an empty body is answered 400 by the verifier).
C11_BadSignatureIs401 ==
    [][ (/\ AnsweredWebhook
         /\ last'.req.body # <<>>
         /\ ~ValidSignature(last'.req))
            => /\ last'.code = HTTP_401_UNAUTHORIZED
               /\ orders' = orders
               /\ products' = products ]_vars

\* What does hold of such a request: it is refused (401, or 400 for an empty
\* body, or 500 for a non-ASCII signature) and changes no order and no product.
C11_BadSignatureChangesNothing ==
    [][ (AnsweredWebhook /\ ~ValidSignature(last'.req))
            => /\ last'.code \in {HTTP_401_UNAUTHORIZED, HTTP_400_BAD_REQUEST,
                                  HTTP_500_INTERNAL_SERVER_ERROR}
               /\ orders' = orders
               /\ products' = products ]_vars

\* ---------------------------------------------------------------- C12
\* C12 (as claimed): the verifier decides in this order: no X-Signature header
\* gives 401 whatever the body; with a header, an empty body gives 400; with a
\* header and a non-empty body, a signature that differs from the expected one
\* gives 401; otherwise the request is accepted and the raw body returned
\* unchanged. An empty header value is counted as no header.
C12_VerifierOrder ==
    last.op = "verify_webhook_signature" =>
        IF ~last.req.signature.present \/ last.req.signature.value = <<>>
        THEN ~last.ok /\ last.code = HTTP_401_UNAUTHORIZED
        ELSE IF last.req.body = <<>>
        THEN ~last.ok /\ last.code = HTTP_400_BAD_REQUEST
        ELSE IF last.req.signature.value # ExpectedSignature(last.req.body)
        THEN ~last.ok /\ last.code = HTTP_401_UNAUTHORIZED
        ELSE last.ok /\ last.body = last.req.body

\* ---------------------------------------------------------------- C13
\* C13: the comparison is exact and case-sensitive: a signature that differs
\* from the expected lowercase hex digest, and equals it once both are folded to
\* lower case, is rejected with 401.
C13_CaseSensitive ==
    (/\ last.op = "verify_webhook_signature"
     /\ last.req.signature.present
     /\ last.req.body # <<>>
     /\ last.req.signature.value # ExpectedSignature(last.req.body)
     /\ lower_text(last.req.signature.value) = ExpectedSignature(last.req.body))
        => ~last.ok /\ last.code = HTTP_401_UNAUTHORIZED

\* The valid signature of a non-empty body was sent in upper case and refused
C13_Witness ==
    /\ last.op = "verify_webhook_signature"
    /\ last.req.body # <<>>
    /\ last.req.signature.value = upper_text(ExpectedSignature(last.req.body))
    /\ last.req.signature.value # ExpectedSignature(last.req.body)
    /\ last.code = HTTP_401_UNAUTHORIZED

\* ---------------------------------------------------------------- payment status
\* The last request answered was an authenticated event
LastEvent ==
    /\ last.op = "payment_webhook"
    /\ ValidSignature(last.req)
    /\ parse_payload(last.req.body).ok

LastEventStatus == parse_payload(last.req.body).payment_status

\* ---------------------------------------------------------------- C14
\* C14: a payment event (Paid or Failed) for an order that is not Pending is
\* refused with the invalid-state error (400) and changes no order; and no step
\* at all changes the payment_status of an order that is not Pending.
C14_NonPendingPaymentFrozen ==
    [][ /\ \A o \in DOMAIN orders :
              orders[o].status # PENDING
                  => /\ o \in DOMAIN orders'
                     /\ orders'[o].payment_status = orders[o].payment_status
        /\ (/\ AnsweredEvent
            /\ EventStatus \in {PAID, FAILED}
            /\ EventOrder \in DOMAIN orders
            /\ orders[EventOrder].status # PENDING)
              => /\ last'.code = HTTP_400_BAD_REQUEST
                 /\ orders' = orders ]_vars

\* A Paid or Failed event with a status the order does not have was refused for
\* an order that is Completed or Canceled
C14_Witness ==
    /\ LastEvent
    /\ LastEventStatus \in {PAID, FAILED}
    /\ last.code = HTTP_400_BAD_REQUEST
    /\ last.id \in DOMAIN orders
    /\ orders[last.id].status # PENDING
    /\ orders[last.id].payment_status # LastEventStatus

\* ---------------------------------------------------------------- C15
\* C15 (as claimed): once an order's payment_status is Paid, it is Paid in every
\* later state.
C15_PaidIsFinal ==
    [][ \A o \in DOMAIN orders :
            orders[o].payment_status = PAID
                => /\ o \in DOMAIN orders'
                   /\ orders'[o].payment_status = PAID ]_vars

\* ---------------------------------------------------------------- C16
\* C16: an authenticated event (Paid or Failed) delivered again, for an order
\* that is still Pending and already has that payment_status, is answered 200
\* and leaves every order and every product as it was.
C16_RedeliveryIdempotent ==
    [][ (/\ AnsweredEvent
         /\ EventStatus \in {PAID, FAILED}
         /\ EventOrder \in DOMAIN orders
         /\ orders[EventOrder].status = PENDING
         /\ orders[EventOrder].payment_status = EventStatus)
            => /\ last'.code = HTTP_200_OK
               /\ orders' = orders
               /\ products' = products
               /\ product_seq' = product_seq ]_vars

\* An event was accepted for an order that had its payment_status already
C16_Witness ==
    /\ LastEvent
    /\ last.code = HTTP_200_OK
    /\ last.before = LastEventStatus
    /\ orders[last.id].status = PENDING

C18_OtherStatusRejected ==
    [][ (AnsweredEvent /\ EventStatus \notin {PAID, FAILED})
            => /\ last'.code = HTTP_400_BAD_REQUEST
               /\ orders' = orders
               /\ products' = products ]_vars

\* An Unpaid event for an order that does not exist was refused with 400
C18_Witness ==
    /\ LastEvent
    /\ LastEventStatus = UNPAID
    /\ last.id \notin DOMAIN orders
    /\ last.code = HTTP_400_BAD_REQUEST

\* ---------------------------------------------------------------- C19
\* C19: a payment webhook answered 200 changes only the payment_status of its
\* order: every product, the order's status, total_price and lines, and every
\* other order are as before.
C19_OnlyPaymentStatusChanges ==
    [][ (AnsweredWebhook /\ last'.code = HTTP_200_OK)
            => /\ products' = products
               /\ product_seq' = product_seq
               /\ DOMAIN orders' = DOMAIN orders
               /\ \A o \in DOMAIN orders :
                     IF o = last'.id
                     THEN orders'[o] = [orders[o] EXCEPT !.payment_status =
                                                          orders'[o].payment_status]
                     ELSE orders'[o] = orders[o] ]_vars

\* An event changed its order's payment_status while another Pending order
\* keeps a different one
C19_Witness ==
    /\ LastEvent
    /\ last.code = HTTP_200_OK
    /\ last.before # LastEventStatus
    /\ \E o \in DOMAIN orders :
          /\ o # last.id
          /\ orders[o].status = PENDING
          /\ orders[o].payment_status # orders[last.id].payment_status

\* ---------------------------------------------------------------- C20
\* C20 (as claimed): a payment webhook aimed at a Completed order is rejected
\* with the invalid-state error (400), whether or not its signature is valid,
\* and the order is unchanged.
C20_CompletedIsStateConflict ==
    [][ (/\ AnsweredWebhook
         /\ parse_payload(last'.req.body).ok
         /\ EventOrder \in DOMAIN orders
         /\ orders[EventOrder].status = COMPLETED)
            => /\ last'.code = HTTP_400_BAD_REQUEST
               /\ orders' = orders ]_vars

\* C20 (amended): a payment webhook aimed at a Completed order is rejected and
\* changes no order, whether or not its signature is valid: with a valid
\* signature the error is the invalid-state error (400); with a missing or
\* invalid signature the signature check refuses it, not the state check.
C20_CompletedRejected ==
    [][ (/\ AnsweredWebhook
         /\ parse_payload(last'.req.body).ok
         /\ EventOrder \in DOMAIN orders
         /\ orders[EventOrder].status = COMPLETED)
            => /\ orders' = orders
               /\ last'.code # HTTP_200_OK
               /\ ValidSignature(last'.req) => last'.code = HTTP_400_BAD_REQUEST
               /\ ~ValidSignature(last'.req) => last'.code # HTTP_400_BAD_REQUEST ]_vars

\* A correctly signed Paid or Failed event for a Completed order was refused
C20_Witness ==
    /\ LastEvent
    /\ LastEventStatus \in {PAID, FAILED}
    /\ last.id \in DOMAIN orders
    /\ orders[last.id].status = COMPLETED
    /\ last.code = HTTP_400_BAD_REQUEST


\* ================================================================ catalog, status updates
AnsweredDelete == last'.op = "delete_product"
AnsweredStatusUpdate == last'.op = "update_order_status"

\* ---------------------------------------------------------------- C21
\* C21 (as claimed): deleting a product that some order line references fails
\* with the referenced error, a client error (400), and leaves every product
\* and every order line in place; deleting an existing product that no line
\* references succeeds (204) and removes exactly that product; deleting an
\* absent product reports not-found (404) and changes nothing.
C21_DeleteOutcomes ==
    [][ AnsweredDelete
            => IF last'.id \notin DOMAIN products
               THEN /\ last'.code = HTTP_404_NOT_FOUND
                    /\ products' = products /\ orders' = orders
               ELSE IF referenced(orders, last'.id)
               THEN /\ last'.code = HTTP_400_BAD_REQUEST
                    /\ products' = products /\ orders' = orders
               ELSE /\ last'.code = HTTP_204_NO_CONTENT
                    /\ products' = [p \in DOMAIN products \ {last'.id} |-> products[p]]
                    /\ orders' = orders ]_vars

\* What does hold of a delete: the state changes are as claimed, and the delete
\* of a referenced product is refused with an error, which is the internal
\* error (500).
C21_DeleteEffects ==
    [][ AnsweredDelete
            => IF last'.id \notin DOMAIN products
               THEN /\ last'.code = HTTP_404_NOT_FOUND
                    /\ products' = products /\ orders' = orders
               ELSE IF referenced(orders, last'.id)
               THEN /\ last'.code = HTTP_500_INTERNAL_SERVER_ERROR
                    /\ products' = products /\ orders' = orders
               ELSE /\ last'.code = HTTP_204_NO_CONTENT
                    /\ products' = [p \in DOMAIN products \ {last'.id} |-> products[p]]
                    /\ orders' = orders ]_vars

\* ---------------------------------------------------------------- C25
\* C25: an updateOrderStatus(order, X) for an order whose status is X already is
\* answered 200 and changes nothing: no order, no product quantity; a second
\* request for Canceled restores no inventory.
C25_SelfTransitionNoOp ==
    [][ (/\ AnsweredStatusUpdate
         /\ last'.id \in DOMAIN orders
         /\ orders[last'.id].status = last'.req)
            => /\ last'.code = HTTP_200_OK
               /\ orders' = orders
               /\ products' = products
               /\ product_seq' = product_seq ]_vars

\* Canceled was requested, and accepted, for an order that was Canceled already
C25_Witness ==
    /\ last.op = "update_order_status"
    /\ last.code = HTTP_200_OK
    /\ last.req = CANCELED
    /\ last.before = CANCELED

\* ---------------------------------------------------------------- C26
\* C26: an updateOrderStatus whose transition the status machine rejects is
\* answered 400 and changes nothing: the order keeps its status, no product
\* quantity is restored or modified.
C26_RejectedTransitionChangesNothing ==
    [][ (/\ AnsweredStatusUpdate
         /\ last'.id \in DOMAIN orders
         /\ <<orders[last'.id].status, last'.req>> \notin AcceptedTransitions)
            => /\ last'.code = HTTP_400_BAD_REQUEST
               /\ orders' = orders
               /\ products' = products ]_vars

\* A request to cancel a Completed order was refused
C26_Witness ==
    /\ last.op = "update_order_status"
    /\ last.code = HTTP_400_BAD_REQUEST
    /\ last.req = CANCELED
    /\ last.before = COMPLETED

C28_CompleteChangesOnlyStatus ==
    [][ /\ (/\ AnsweredStatusUpdate
            /\ last'.id \in DOMAIN orders
            /\ orders[last'.id].status = PENDING
            /\ last'.req = COMPLETED)
              => /\ last'.code = HTTP_200_OK
                 /\ products' = products
                 /\ orders' = [orders EXCEPT ![last'.id].status = COMPLETED]
        /\ (/\ AnsweredStatusUpdate
            /\ last'.id \in DOMAIN orders
            /\ orders[last'.id].status = COMPLETED)
              => products' = products ]_vars

\* A Pending order was completed
C28_Witness ==
    /\ last.op = "update_order_status"
    /\ last.code = HTTP_200_OK
    /\ last.req = COMPLETED
    /\ last.before = PENDING
    /\ orders[last.id].status = COMPLETED


\* ================================================================ order creation, failing commits
\* The request just answered met a failing commit
CommitFailed == "commit_failed" \in DOMAIN last'

\* ---------------------------------------------------------------- C23
\* C23: when the commit of a createOrder or of an order status update (a
\* cancellation among them) fails, the request is answered with the internal
\* error (500) and the committed state is what it was before the request: no
\* order, no line, no deduction, no status change, no restoration.
C23_FailedCommitRollsBack ==
    [][ CommitFailed
            => /\ last'.code = HTTP_500_INTERNAL_SERVER_ERROR
               /\ products' = products
               /\ orders' = orders
               /\ product_seq' = product_seq ]_vars

\* The commit of an order that passed every check failed; no order is on file
C23_Witness ==
    /\ last.op = "create_order"
    /\ "commit_failed" \in DOMAIN last
    /\ last.code = HTTP_500_INTERNAL_SERVER_ERROR
    /\ orders = <<>>

\* The commit of the cancellation of a Pending order failed; the order is still
\* Pending
C23_CancelWitness ==
    /\ last.op = "update_order_status"
    /\ "commit_failed" \in DOMAIN last
    /\ last.req = CANCELED
    /\ last.before = PENDING
    /\ orders[last.id].status = PENDING

\* ---------------------------------------------------------------- C29
\* C29: a successful createOrder adds one order, in status Pending and payment
\* status Unpaid, with the requested customer reference and one line per input
\* line, in the input's order, each with the input line's product and quantity
\* and with price_at_purchase equal to that product's price when the request
\* arrived.
C29_NewOrderShape ==
    [][ (AnsweredCreateOrder /\ last'.code = HTTP_201_CREATED)
            => /\ Len(orders') = Len(orders) + 1
               /\ \A o \in 1..Len(orders) : orders'[o] = orders[o]
               /\ LET order == orders'[Len(orders')]
                      items == last'.req.products
                  IN  /\ order.status = PENDING
                      /\ order.payment_status = UNPAID
                      /\ order.customer_id = last'.req.customer_id
                      /\ Len(order.order_items) = Len(items)
                      /\ \A i \in 1..Len(items) :
                            /\ order.order_items[i].product_id = items[i].product_id
                            /\ order.order_items[i].quantity = items[i].quantity
                            /\ order.order_items[i].price_at_purchase =
                                   products[items[i].product_id].price ]_vars

\* An order of the second customer is on file whose two lines name product 2,
\* then product 1, in different quantities, at different prices
C29_Witness ==
    /\ last.op = "create_order"
    /\ last.code = HTTP_201_CREATED
    /\ orders[last.id].customer_id = NumCustomers
    /\ Len(orders[last.id].order_items) = 2
    /\ orders[last.id].order_items[1].product_id = 2
    /\ orders[last.id].order_items[2].product_id = 1
    /\ orders[last.id].order_items[1].quantity # orders[last.id].order_items[2].quantity
    /\ orders[last.id].order_items[1].price_at_purchase #
           orders[last.id].order_items[2].price_at_purchase

\* ---------------------------------------------------------------- C30
\* C30: a successful createOrder decreases the quantity of each product by
\* exactly the quantity ordered of it, changes no other field of a product, and
\* leaves the products it does not order as they were.
C30_DeductsOrderedQuantities ==
    [][ (AnsweredCreateOrder /\ last'.code = HTTP_201_CREATED)
            => /\ DOMAIN products' = DOMAIN products
               /\ \A p \in DOMAIN products :
                    products'[p] = [products[p] EXCEPT !.quantity =
                                        @ - LineQty(last'.req.products, p)] ]_vars

\* An order of LargeQty units of one product was created: that product's stock
\* went down by LargeQty, the other product's stock is untouched
C30_Witness ==
    /\ last.op = "create_order"
    /\ last.code = HTTP_201_CREATED
    /\ Len(last.req.products) = 1
    /\ last.req.products[1].quantity = LargeQty
    /\ products[last.req.products[1].product_id].quantity = MaxStock - LargeQty
    /\ \E p \in DOMAIN products : products[p].quantity = MaxStock


\* ================================================================ concurrent transactions
\* ---------------------------------------------------------------- C22
\* C22: in every reachable state, under every interleaving of createOrder,
\* product delete, order status update and payment status update, every order
\* line references a product that is in the catalog.
C22_ReferentialIntegrity ==
    \A o \in DOMAIN orders : \A i \in 1..Len(orders[o].order_items) :
        orders[o].order_items[i].product_id \in DOMAIN products

\* A createOrder whose product was deleted between its query and its commit was
\* refused at the commit
C22_Witness ==
    \E s \in Sessions :
        /\ sess[s].pc = "done"
        /\ "op" \in DOMAIN sess[s]
        /\ sess[s].op = "create_order"
        /\ sess[s].code = HTTP_500_INTERNAL_SERVER_ERROR
        /\ \E i \in 1..Len(sess[s].req.products) :
              sess[s].req.products[i].product_id \notin DOMAIN products

\* A delete whose product got referenced between its load of the lines and its
\* DELETE was refused by the foreign key
C22_DeleteWitness ==
    \E s \in Sessions :
        /\ sess[s].pc = "done"
        /\ "op" \in DOMAIN sess[s]
        /\ sess[s].op = "delete_product"
        /\ sess[s].code = HTTP_400_BAD_REQUEST

\* ---------------------------------------------------------------- C24
\* C24: what other requests can read changes only at a commit, and a commit
\* publishes the whole of its transaction in one step: an order appears with
\* all its lines and, in the same step, every quantity its session deducted; a
\* status changes to Canceled in the same step as every quantity its session
\* restored; a payment status changes alone; and no quantity changes but in the
\* step in which an order appears or in which a cancellation commits its
\* Canceled status. (Which quantities a session deducts or restores, computed
\* from rows it read earlier, is not the subject here.)
OrderAppears == Len(orders') > Len(orders)
StatusChanges(o, st) == orders[o].status # st /\ orders'[o].status = st

C24_CommitsAreAtomic ==
    [][ /\ OrderAppears
            => \E s \in Sessions :
                /\ sess[s].pc = "commit"
                /\ sess'[s].pc = "done"
                /\ orders' = Append(orders, sess[s].plan.order)
                /\ Len(orders'[Len(orders')].order_items) = Len(sess[s].req.products)
                /\ products' = flush_quantities(products, sess[s].plan.writes)
        /\ \A o \in DOMAIN orders :
             /\ o \in DOMAIN orders'
             /\ orders'[o].order_items = orders[o].order_items
             /\ StatusChanges(o, CANCELED)
                  => \E s \in Sessions :
                        /\ sess[s].pc = "status_commit"
                        /\ sess'[s].pc = "done"
                        /\ sess[s].writes # <<>>
                        /\ products' = flush_quantities(products, sess[s].writes)
             /\ StatusChanges(o, COMPLETED) => products' = products
             /\ orders'[o].payment_status # orders[o].payment_status
                  => /\ products' = products
                     /\ orders' = [orders EXCEPT ![o].payment_status =
                                                    orders'[o].payment_status]
        /\ (\E p \in DOMAIN products \cap DOMAIN products' :
                products'[p].quantity # products[p].quantity)
            => \/ OrderAppears
               \/ \E s \in Sessions :
                    /\ sess[s].pc = "status_commit"
                    /\ sess'[s].pc = "done"
                    /\ sess[s].new = CANCELED
                    /\ sess[s].before = PENDING
                    /\ orders'[sess[s].order_id].status = CANCELED
                    /\ products' = flush_quantities(products, sess[s].writes) ]_vars

\* Both commits happened while another session was in the middle of a request:
\* an order was created, and the order on file canceled and restored
C24_Witness ==
    /\ Len(orders) = 2
    /\ orders[1].status = CANCELED
    /\ \A s \in Sessions : sess[s].pc = "done" /\ sess[s].code \in {HTTP_200_OK, HTTP_201_CREATED}


\* ================================================================ stock accounting
\* ---------------------------------------------------------------- C31
\* C31: when only createOrder and updateOrderStatus run, one after the other (no
\* product edit, no product delete), every product's quantity plus the quantity
\* its Pending and Completed orders hold of it equals its initial quantity.
C31_StockConserved ==
    \A p \in DOMAIN products : products[p].quantity + SoldQty(p) = MaxStock

\* Two orders are on file, of which one is Completed
\* and one Pending, both hold units of one product, and that product's stock
\* is down by what the two hold
C31_Witness ==
    /\ Len(orders) = 2
    /\ orders[1].status = COMPLETED
    /\ orders[2].status = PENDING
    /\ \E p \in DOMAIN products :
          /\ LineQty(orders[1].order_items, p) > 0
          /\ LineQty(orders[2].order_items, p) > 0
          /\ products[p].quantity = MaxStock - SoldQty(p)
          /\ products[p].quantity < MaxStock - 1

\* ---------------------------------------------------------------- C35
\* C35: in every reachable state, a createOrder that succeeds, followed at once
\* by the cancellation of the order it created, leaves every product with the
\* quantity (and price) it had before the createOrder.
C35_CreateThenCancelRoundTrip ==
    \A d \in LargeOrderCreate :
        \E r \in {create_order(products, orders, d)} :
            r.code = HTTP_201_CREATED
                => \E c \in {update_order_status(r.products, r.orders,
                                                 Len(r.orders), CANCELED)} :
                      /\ c.code = HTTP_200_OK
                      /\ c.orders[Len(r.orders)].status = CANCELED
                      /\ c.products = products

\* An order of two lines was created and then canceled; every product is back
\* at its initial quantity
C35_Witness ==
    /\ last.op = "update_order_status"
    /\ last.code = HTTP_200_OK
    /\ last.req = CANCELED
    /\ last.before = PENDING
    /\ Len(orders[last.id].order_items) = 2
    /\ \A p \in DOMAIN products : products[p].quantity = MaxStock


\* ================================================================ concurrent status and stock updates
\* Session s has answered a request of kind op
Finished(s, op) ==
    /\ sess[s].pc = "done"
    /\ "op" \in DOMAIN sess[s]
    /\ sess[s].op = op

\* Session s has committed the cancellation of a Pending order
CommittedCancel(s) ==
    /\ Finished(s, "update_order_status")
    /\ sess[s].code = HTTP_200_OK
    /\ sess[s].new = CANCELED
    /\ sess[s].before = PENDING

\* Session s has committed a new order
CommittedOrder(s) ==
    /\ Finished(s, "create_order")
    /\ sess[s].code = HTTP_201_CREATED

\* ---------------------------------------------------------------- C32
\* C32 (as claimed): when the concurrent requests were all updateOrderStatus
\* requests and all have finished, the inventory of the order on file (one unit
\* of product 1, RaceStock units in stock beside it) has been restored exactly
\* once if the order ended Canceled and not at all otherwise.
C32_RestoredExactlyOnce ==
    (\A s \in Sessions : Finished(s, "update_order_status"))
        => products[1].quantity =
              RaceStock + (IF orders[1].status = CANCELED THEN 1 ELSE 0)

\* ---------------------------------------------------------------- C33
\* C33 (as claimed): no step changes the payment_status of an order whose
\* committed status is Completed or Canceled at that step.
C33_PaymentWriteOnlyWhilePending ==
    [][ \A o \in DOMAIN orders :
            (o \in DOMAIN orders' /\ orders'[o].payment_status # orders[o].payment_status)
                => orders[o].status = PENDING ]_vars

\* ---------------------------------------------------------------- C34
\* C34 (as claimed): once the concurrent requests have all finished, every
\* product's quantity is its initial quantity, RaceStock, minus the quantities of
\* the orders committed meanwhile plus the quantities of the cancellations
\* committed meanwhile.
C34_NoLostInventoryUpdate ==
    (\A s \in Sessions : sess[s].pc = "done")
        => \A p \in DOMAIN products :
              products[p].quantity =
                  RaceStock
                  - SumSeq([s \in 1..NumSessions |->
                               IF CommittedOrder(s)
                               THEN LineQty(sess[s].req.products, p) ELSE 0])
                  + SumSeq([s \in 1..NumSessions |->
                               IF CommittedCancel(s)
                               THEN LineQty(orders[sess[s].order_id].order_items, p)
                               ELSE 0])


\* ================================================================ payment status, validation order, listing
\* ---------------------------------------------------------------- C37
\* C37: an order's payment_status never returns to Unpaid: once it is Paid or
\* Failed it is Paid or Failed after every step.
C37_NeverBackToUnpaid ==
    [][ \A o \in DOMAIN orders :
            orders[o].payment_status # UNPAID
                => /\ o \in DOMAIN orders'
                   /\ orders'[o].payment_status \in {PAID, FAILED} ]_vars

\* A Failed event was accepted for an order that was Paid; the order is Failed,
\* not Unpaid
C37_Witness ==
    /\ LastEvent
    /\ last.code = HTTP_200_OK
    /\ last.before = PAID
    /\ LastEventStatus = FAILED
    /\ orders[last.id].payment_status = FAILED


\* ---------------------------------------------------------------- C38
\* C38: createOrder checks that every product exists before it checks the stock:
\* a request naming an absent product and holding a line that exceeds its
\* product's stock is answered not-found (404); and a request that fails either
\* check creates no order and deducts nothing.
C38_ExistenceBeforeStock ==
    [][ AnsweredCreateOrder
            => /\ (AbsentIds(products, last'.req) # {} /\ SomeLineShort(products, last'.req))
                    => last'.code = HTTP_404_NOT_FOUND
               /\ last'.code \in {HTTP_404_NOT_FOUND, HTTP_400_BAD_REQUEST}
                    => /\ products' = products
                       /\ orders' = orders ]_vars

\* A request with a line for an absent product and a line asking for more than
\* the stock of an existing product was answered 404
C38_Witness ==
    /\ last.op = "create_order"
    /\ last.code = HTTP_404_NOT_FOUND
    /\ AbsentIds(products, last.req) # {}
    /\ SomeLineShort(products, last.req)


\* ---------------------------------------------------------------- C36
\* C36's case: a Pending order has a line whose product is not in the catalog.
C36_OrphanLine ==
    \E o \in DOMAIN orders :
        /\ orders[o].status = PENDING
        /\ \E i \in 1..Len(orders[o].order_items) :
              orders[o].order_items[i].product_id \notin DOMAIN products

\* C36's case is reached in no state: the foreign key of the lines keeps every
\* referenced product in the catalog.
C36_NoOrphanLine == ~C36_OrphanLine

\* C36, of the handler as a function: were the products in `gone` missing from
\* the rows the restore loop queries, the cancellation of a Pending order would
\* still be answered 200, set the status to Canceled and restore the quantity of
\* every line whose product is there.
C36_CancelSkipsMissingProducts ==
    \A o \in DOMAIN orders : \A gone \in SUBSET DOMAIN products :
        orders[o].status = PENDING
            => \E P \in {[p \in DOMAIN products \ gone |-> products[p]]} :
               \E r \in {update_order_status(P, orders, o, CANCELED)} :
                  /\ r.code = HTTP_200_OK
                  /\ r.orders[o].status = CANCELED
                  /\ DOMAIN r.products = DOMAIN P
                  /\ \A p \in DOMAIN P :
                        r.products[p].quantity =
                            P[p].quantity + LineQty(orders[o].order_items, p)


\* ---------------------------------------------------------------- C39
AnsweredList == last'.op = "get_orders"

ValidPage(req) ==
    req.page >= 1 /\ req.page_size >= 1 /\ req.page_size <= MAX_PAGE_SIZE

\* The answer just given is a page of the matching orders, newest first: the
\* total counts all matching orders, the items are matching orders without
\* repetition, none created before a later item, every matching order left out
\* before the page is no older than the items and every one left out after it no
\* newer, and the page has the length of the slice
\* [(page-1)*page_size, page*page_size) of the matching orders.
PageOfMatching(O, req, items, total) ==
    LET M == filter_orders(O, req)
        from == (req.page - 1) * req.page_size
        len == IF total - from < 0 THEN 0
               ELSE IF total - from < req.page_size THEN total - from
               ELSE req.page_size
    IN  /\ total = Cardinality(M)
        /\ Len(items) = len
        /\ \A i \in DOMAIN items : items[i] \in M
        /\ \A i, j \in DOMAIN items : i # j => items[i] # items[j]
        /\ \A i, j \in DOMAIN items :
              i < j => O[items[i]].created_at >= O[items[j]].created_at
        /\ \A i \in DOMAIN items :
              /\ Cardinality({o \in M : O[o].created_at > O[items[i]].created_at})
                    <= from + i - 1
              /\ Cardinality({o \in M : O[o].created_at >= O[items[i]].created_at})
                    >= from + i

\* C39 (as claimed): get_orders rejects a page below 1 and a page_size outside
\* 1..100; otherwise it answers with the number of all matching orders as total
\* and with a page of the matching orders, newest first; and the order is
\* deterministic: the same request on the same orders gets the same items.
C39_ListingStable ==
    [][ AnsweredList
            => /\ ~ValidPage(last'.req) => last'.code = HTTP_400_BAD_REQUEST
               /\ ValidPage(last'.req)
                    => /\ last'.code = HTTP_200_OK
                       /\ PageOfMatching(orders, last'.req, last'.items, last'.total)
               /\ (last.op = "get_orders" /\ last.req = last'.req)
                    => last'.items = last.items /\ last'.total = last.total ]_vars

\* What does hold: validation, total and pages are as claimed, and the same
\* request gets the same items when no two matching orders have one created_at.
C39_ListingStableWithoutTies ==
    [][ AnsweredList
            => /\ ~ValidPage(last'.req) => last'.code = HTTP_400_BAD_REQUEST
               /\ ValidPage(last'.req)
                    => /\ last'.code = HTTP_200_OK
                       /\ PageOfMatching(orders, last'.req, last'.items, last'.total)
               /\ (/\ last.op = "get_orders" /\ last.req = last'.req
                   /\ \A o1, o2 \in filter_orders(orders, last'.req) :
                         orders[o1].created_at = orders[o2].created_at => o1 = o2)
                    => last'.items = last.items /\ last'.total = last.total ]_vars

\* A second page of one order was served, from a filtered listing
C39_Witness ==
    /\ last.op = "get_orders"
    /\ last.code = HTTP_200_OK
    /\ last.req.page = 2
    /\ last.req.page_size = 1
    /\ last.req.status = PENDING
    /\ Len(last.items) = 1
    /\ last.total = 2

====
